---- MODULE Spec2Model ----
(***************************************************************************)
(* The transaction / cursor binding of rust-src/bch_bindgen/src/btree.rs:  *)
(* BtreeTrans, BtreeIter (Leaf Cursor), BtreeNodeIter (Node Cursor) and    *)
(* the borrowed views they hand out, over the storage engine they wrap.    *)
(* The engine (the c:: functions) and crate::errcode are not part of       *)
(* btree.rs; their behaviour is taken from the design document.            *)
(***************************************************************************)
EXTENDS Integers, FiniteSets, Sequences, TLC

VARIABLES
    trans,      \* BtreeTrans objects: "none" | "open" | "closed"
    iter,       \* BtreeIter / BtreeNodeIter objects with their raw c::btree_iter
    call,       \* per cursor: the last call made on it and what it returned
    view,       \* per cursor: the BkeySC / &c::btree still borrowed from it
    puts,       \* engine accounting: bch2_trans_put calls per context
    exits,      \* engine accounting: bch2_trans_iter_exit calls per cursor
    paths,      \* engine: cursors registered with each context
    keys,       \* engine: positions holding a key in the tree
    ver,        \* engine: committed version of the key/value at each position
    wr,         \* engine: position a writer transaction is updating right now
    lastRead,   \* what the last read through a view saw
    owner,      \* per context: the thread that created it
    inCall,     \* per thread: the cursor whose method the thread is inside
    gets        \* engine accounting: contexts __bch2_trans_get allocated

vars == <<trans, iter, call, view, puts, exits, paths, keys, ver, wr, lastRead,
          owner, inCall, gets>>

-----------------------------------------------------------------------------
(* Bounds *)
MaxTrans == 2
MaxIters == 2
MaxPos == 1
MaxWrites == 1
RetryBudget == 1
MaxThreads == 2

Min(S) == CHOOSE x \in S : \A y \in S : x <= y

TransIds == 1..MaxTrans
IterIds == 1..MaxIters
Positions == 0..MaxPos
NoPos == 0 - 1
NoTrans == 0
NoIterId == Min(IterIds) - 1
Threads == 1..MaxThreads
NoThread == Min(Threads) - 1
(* the thread a program starts on *)
MainThread == Min(Threads)

(* crate::SPOS_MAX, the sentinel maximum Position *)
SPOS_MAX == MaxPos
(* one past the maximum: the position of an Exhausted cursor *)
PastEnd == SPOS_MAX + 1

(* BtreeIterFlags bits *)
INTENT == 4
CACHED == 64
CACHED_NOFILL == 16384
FlagChoices == {0, INTENT}
HasFlag(bits, f) == (bits \div f) % 2 = 1

(* tree shape: two leaf nodes (named by their last position) under a root *)
LeafSplit == MaxPos \div 2
NodeOf(p) == IF p <= LeafSplit THEN LeafSplit ELSE SPOS_MAX
NodesAt(d) == IF d = 0 THEN {LeafSplit, SPOS_MAX} ELSE IF d = 1 THEN {SPOS_MAX} ELSE {}
Depths == {0, 1}
LocksWant == {0}
StartPositions == {0}
KeySets == {{SPOS_MAX}, Positions}

Max2(a, b) == IF a >= b THEN a ELSE b

-----------------------------------------------------------------------------
(* Pointers handed back by the engine *)
NullPtr == [tag |-> "null", at |-> NoPos, part |-> "none", code |-> "none"]
Ptr(p, part) == [tag |-> "ptr", at |-> p, part |-> part, code |-> "none"]
ErrPtr(c) == [tag |-> "err", at |-> NoPos, part |-> "none", code |-> c]

ErrCodes == {"transaction_restart", "EIO"}
EngineSignals == {"ok", "EIO"}

NoLock == [level |-> NoPos, key |-> NoPos, mode |-> "none"]
NoView == [k |-> NullPtr, v |-> NullPtr]
NoCall == [ret |-> "NoRet", err |-> "none", sig |-> NullPtr,
           conflicted |-> FALSE, restarted |-> FALSE, floor |-> NoPos,
           whole |-> TRUE, ctxOpen |-> TRUE, again |-> FALSE]
NoIter == [state |-> "none", kind |-> "leaf", trans |-> NoTrans, pos |-> 0,
           flags |-> 0, locks_want |-> 0, depth |-> 0, lock |-> NoLock]

-----------------------------------------------------------------------------
(* The engine: tree content and locks *)

(* version of the key part / value part stored at p; a writer in the middle
   of an update has written the key part and not yet the value part *)
KeyVer(p) == ver[p] + (IF wr = p THEN 1 ELSE 0)
ValVer(p) == ver[p]

(* what a load through a pointer yields; a load through anything but a
   pointer into the tree yields no version at all *)
Deref(p) ==
    IF p.tag # "ptr" THEN NoPos
    ELSE IF p.part = "k" THEN KeyVer(p.at)
    ELSE IF p.part = "v" THEN ValVer(p.at)
    ELSE p.at

WholePair(vw) ==
    /\ vw.k.tag = "ptr" /\ vw.v.tag = "ptr"
    /\ vw.k.at = vw.v.at
    /\ (vw.k.part = "k" => vw.v.part = "v" /\ Deref(vw.k) = Deref(vw.v))

WriteLocked(lvl, key) == lvl = 0 /\ wr # NoPos /\ NodeOf(wr) = key

LockConflict(its, i, lvl, key, mode) ==
    \/ WriteLocked(lvl, key)
    \/ /\ mode = "intent"
       /\ \E j \in IterIds \ {i} :
            /\ its[j].trans # its[i].trans
            /\ its[j].lock = [level |-> lvl, key |-> key, mode |-> "intent"]

btree_lock_want(it) == IF it.locks_want > it.depth THEN "intent" ELSE "read"

(* a transaction restart drops every lock the context's cursors hold *)
bch2_trans_unlock(its, t) ==
    [j \in IterIds |->
        IF its[j].state = "open" /\ its[j].trans = t
        THEN [its[j] EXCEPT !.lock = NoLock] ELSE its[j]]

HeldOn(lvl, key) ==
    \E j \in IterIds : iter[j].lock.level = lvl /\ iter[j].lock.key = key

-----------------------------------------------------------------------------
(* The engine: cursor primitives.  Each takes the cursor table and returns
   the pointer(s) it hands back together with the updated cursor table. *)

IsRestart(p) == p.tag = "err" /\ p.code = "transaction_restart"

(* next key at or after the cursor's position and at or before end *)
bch2_btree_iter_peek_upto(its, i, end, sig) ==
    LET it   == its[i]
        cand == {p \in keys : it.pos <= p /\ p <= end}
        tp   == IF cand # {} THEN Min(cand)
                ELSE IF it.pos > SPOS_MAX THEN SPOS_MAX ELSE it.pos
        lk   == [level |-> 0, key |-> NodeOf(tp), mode |-> btree_lock_want(it)]
    IN  IF sig = "EIO"
        THEN [k |-> ErrPtr("EIO"), v |-> NullPtr, its |-> its]
        ELSE IF LockConflict(its, i, lk.level, lk.key, lk.mode)
        THEN [k |-> ErrPtr("transaction_restart"), v |-> NullPtr,
              its |-> bch2_trans_unlock(its, it.trans)]
        ELSE IF cand # {}
        THEN [k |-> Ptr(tp, "k"), v |-> Ptr(tp, "v"),
              its |-> [its EXCEPT ![i].pos = tp, ![i].lock = lk]]
        ELSE [k |-> NullPtr, v |-> NullPtr, its |-> [its EXCEPT ![i].lock = lk]]

bch2_trans_begin(its, t) == bch2_trans_unlock(its, t)

(* peek; on a restart re-begin the transaction and try again, at most
   RetryBudget more times *)
RECURSIVE peek_retry(_, _, _, _)
peek_retry(its, i, sig, n) ==
    LET r == bch2_btree_iter_peek_upto(its, i, SPOS_MAX, sig)
    IN  IF IsRestart(r.k) /\ n > 0
        THEN peek_retry(bch2_trans_begin(r.its, its[i].trans), i, sig, n - 1)
        ELSE [k |-> r.k, v |-> r.v, its |-> r.its, tries |-> RetryBudget + 1 - n]

bch2_btree_iter_peek_and_restart_outlined(its, i, sig) ==
    peek_retry(its, i, sig, RetryBudget)

(* move the cursor past the last returned key *)
bch2_btree_iter_advance(its, i) ==
    [its EXCEPT ![i].pos = IF @ > SPOS_MAX THEN @ ELSE @ + 1]

(* the node at the cursor's depth covering the cursor's position *)
bch2_btree_iter_peek_node(its, i, sig) ==
    LET it   == its[i]
        cand == {n \in NodesAt(it.depth) : n >= it.pos}
        tn   == IF cand # {} THEN Min(cand) ELSE SPOS_MAX
        lk   == [level |-> it.depth, key |-> tn, mode |-> btree_lock_want(it)]
    IN  IF sig = "EIO"
        THEN [k |-> ErrPtr("EIO"), v |-> NullPtr, its |-> its]
        ELSE IF cand = {}
        THEN [k |-> NullPtr, v |-> NullPtr, its |-> [its EXCEPT ![i].lock = NoLock]]
        ELSE IF LockConflict(its, i, lk.level, lk.key, lk.mode)
        THEN [k |-> ErrPtr("transaction_restart"), v |-> NullPtr,
              its |-> bch2_trans_unlock(its, it.trans)]
        ELSE [k |-> Ptr(tn, "node"), v |-> Ptr(tn, "node"),
              its |-> [its EXCEPT ![i].pos = tn, ![i].lock = lk]]

RECURSIVE peek_node_retry(_, _, _, _)
peek_node_retry(its, i, sig, n) ==
    LET r == bch2_btree_iter_peek_node(its, i, sig)
    IN  IF IsRestart(r.k) /\ n > 0
        THEN peek_node_retry(bch2_trans_begin(r.its, its[i].trans), i, sig, n - 1)
        ELSE [k |-> r.k, v |-> r.v, its |-> r.its, tries |-> RetryBudget + 1 - n]

bch2_btree_iter_peek_node_and_restart(its, i, sig) ==
    peek_node_retry(its, i, sig, RetryBudget)

(* move to the next node at the same depth and hand it back *)
bch2_btree_iter_next_node(its, i, sig) ==
    LET it   == its[i]
        cand == {n \in NodesAt(it.depth) : n >= it.pos}
        np   == IF cand # {} THEN Min(cand) + 1 ELSE PastEnd
        r    == bch2_btree_iter_peek_node([its EXCEPT ![i].pos = np], i, sig)
    IN  IF r.k.tag = "err" THEN [r EXCEPT !.its = [@ EXCEPT ![i].pos = it.pos]]
        ELSE [r EXCEPT !.its = [@ EXCEPT ![i].pos = IF r.k.tag = "null" THEN np ELSE @]]

(* register a cursor with its context; touches no tree data *)
bch2_trans_iter_init_outlined(t, pos, flags) ==
    [state |-> "open", kind |-> "leaf", trans |-> t, pos |-> pos,
     flags |-> flags,
     locks_want |-> IF HasFlag(flags, INTENT) THEN 1 ELSE 0,
     depth |-> 0, lock |-> NoLock]

bch2_trans_node_iter_init(t, pos, locks_want, depth, flags) ==
    [state |-> "open", kind |-> "node", trans |-> t, pos |-> pos,
     flags |-> flags,
     locks_want |-> IF HasFlag(flags, INTENT) THEN Max2(locks_want, depth + 1)
                    ELSE locks_want,
     depth |-> depth, lock |-> NoLock]

-----------------------------------------------------------------------------
(* The binding: results *)

(* crate::errcode: an error pointer becomes Err(code), anything else Ok *)
errptr_to_result_c(p) ==
    IF p.tag = "err" THEN [ok |-> FALSE, err |-> p.code]
    ELSE [ok |-> TRUE, err |-> "none"]

(* errptr_to_result_c(k.k).map(|_| if !k.k.is_null() { Some(BkeySC { k, v }) }
   else { None }) *)
BkeySC(k) == [k |-> k.k, v |-> k.v]

peek_result_collapsed(k) ==
    LET r == errptr_to_result_c(k.k)
    IN  IF r.ok /\ k.k.tag # "null"
        THEN [ret |-> "OkSome", err |-> "none", view |-> BkeySC(k)]
        ELSE [ret |-> "Err", err |-> "EIO", view |-> NoView]

peek_result_unchecked(k) ==
    IF k.k.tag # "null"
    THEN [ret |-> "OkSome", err |-> "none", view |-> BkeySC(k)]
    ELSE [ret |-> "OkNone", err |-> "none", view |-> NoView]

peek_result(k) ==
    LET r == errptr_to_result_c(k.k)
    IN  IF r.ok
        THEN IF k.k.tag # "null"
             THEN [ret |-> "OkSome", err |-> "none", view |-> BkeySC(k)]
             ELSE [ret |-> "OkNone", err |-> "none", view |-> NoView]
        ELSE [ret |-> "Err", err |-> r.err, view |-> NoView]

(* errptr_to_result_c(b).map(|b| if !b.is_null() { Some(&*b) } else { None }) *)
node_result(b) ==
    LET r == errptr_to_result_c(b.k)
    IN  IF r.ok
        THEN IF b.k.tag # "null"
             THEN [ret |-> "OkSome", err |-> "none", view |-> [k |-> b.k, v |-> b.k]]
             ELSE [ret |-> "OkNone", err |-> "none", view |-> NoView]
        ELSE [ret |-> "Err", err |-> r.err, view |-> NoView]

RestartOps == {"peek_and_restart"}
PeekOps == {"peek", "peek_upto"}

(* the record of a call: what was called, what the engine signalled, what
   the caller got, and where the call leaves the cursor's protocol state *)
CallRecord(i, opname, sig, res) ==
    [ret        |-> res.ret,
     err        |-> res.err,
     sig        |-> sig,
     conflicted |-> IF res.ret = "Err" /\ res.err = "transaction_restart" THEN TRUE
                    ELSE IF opname \in RestartOps THEN FALSE
                    ELSE call[i].conflicted,
     floor      |-> IF opname = "advance" /\ call[i].ret = "OkSome"
                    THEN iter[i].pos ELSE call[i].floor,
     restarted  |-> call[i].restarted \/ (call[i].conflicted /\ opname \in RestartOps),
     whole      |-> IF res.ret = "OkSome" THEN WholePair(res.view) ELSE TRUE,
     ctxOpen    |-> trans[iter[i].trans] = "open",
     again      |-> /\ opname \in PeekOps /\ iter[i].kind = "leaf"
                    /\ call[i].ret = "OkSome" /\ res.ret = "OkSome"]

UnitResult == [ret |-> "Unit", err |-> "none", view |-> NoView]

(* a method taking &mut self ends every borrow taken from the cursor before:
   the view held from an earlier call is gone, the new result replaces it *)
Returns(i, opname, eng, res) ==
    /\ iter' = eng.its
    /\ call' = [call EXCEPT ![i] = CallRecord(i, opname, eng.k, res)]
    /\ view' = [view EXCEPT ![i] = res.view]
    /\ inCall' = [th \in Threads |-> IF inCall[th] = i THEN NoIterId ELSE inCall[th]]
    /\ UNCHANGED <<trans, puts, exits, paths, keys, ver, wr, lastRead, owner, gets>>

IsOpen(i, kind) == iter[i].state = "open" /\ iter[i].kind = kind

(* BtreeIter<'t> and BtreeNodeIter<'t> hold PhantomData<&'t BtreeTrans<'t>>:
   the context is borrowed for as long as a cursor opened under it lives *)
Borrowed_none(t) == FALSE

Borrowed(t) == \E i \in IterIds : iter[i].state = "open" /\ iter[i].trans = t

-----------------------------------------------------------------------------
(* The binding: operations *)

(* what __bch2_trans_get hands back: a context, or nothing when the engine
   cannot allocate one *)
AllocSignals == {"ptr", "null"}
(* `&mut *` applied to a null pointer is undefined behaviour: the build
   either traps there, or carries the null pointer into the new BtreeTrans *)
NullDerefOutcomes == {"trap", "carried"}

(* BtreeTrans { raw: &mut *c::__bch2_trans_get(fs.raw, 0), fs: PhantomData },
   run by thread th; the result is not inspected *)
BtreeTrans_new_on(th, t, got, ub) ==
    /\ trans[t] = "none"
    /\ trans' = [trans EXCEPT ![t] =
                    IF got = "ptr" \/ ub = "carried" THEN "open" ELSE "failed"]
    /\ gets' = [gets EXCEPT ![t] = IF got = "ptr" THEN 1 ELSE 0]
    /\ owner' = [owner EXCEPT ![t] = th]
    /\ UNCHANGED <<iter, call, view, puts, exits, paths, keys, ver, wr, lastRead, inCall>>

BtreeTrans_new(t) == BtreeTrans_new_on(MainThread, t, "ptr", "trap")

BtreeTrans_drop_noput(t) ==
    /\ trans[t] = "open"
    /\ ~Borrowed(t)
    /\ trans' = [trans EXCEPT ![t] = "closed"]
    /\ UNCHANGED <<iter, call, view, puts, exits, paths, keys, ver, wr, lastRead, owner, inCall, gets>>

BtreeTrans_drop(t) ==
    /\ trans[t] = "open"
    /\ ~Borrowed(t)
    /\ trans' = [trans EXCEPT ![t] = "closed"]
    /\ puts' = [puts EXCEPT ![t] = @ + 1]
    /\ UNCHANGED <<iter, call, view, exits, paths, keys, ver, wr, lastRead, owner, inCall, gets>>

(* contexts are interchangeable: the first cursor opens under the first *)
TransChoices(i) == {t \in TransIds : t <= i}

Fresh(i) == iter[i].state = "none" /\ \A j \in IterIds : j < i => iter[j].state # "none"

BtreeIter_new(i, t, pos, flags) ==
    /\ Fresh(i)
    /\ trans[t] = "open"
    /\ iter' = [iter EXCEPT ![i] = bch2_trans_iter_init_outlined(t, pos, flags)]
    /\ paths' = [paths EXCEPT ![t] = @ \cup {i}]
    /\ UNCHANGED <<trans, call, view, puts, exits, keys, ver, wr, lastRead, owner, inCall, gets>>

BtreeNodeIter_new(i, t, pos, locks_want, depth, flags) ==
    /\ Fresh(i)
    /\ trans[t] = "open"
    /\ iter' = [iter EXCEPT ![i] =
                    bch2_trans_node_iter_init(t, pos, locks_want, depth, flags)]
    /\ paths' = [paths EXCEPT ![t] = @ \cup {i}]
    /\ UNCHANGED <<trans, call, view, puts, exits, keys, ver, wr, lastRead, owner, inCall, gets>>

peek_upto_as(i, opname, end, sig) ==
    \E eng \in {bch2_btree_iter_peek_upto(iter, i, end, sig)} :
           Returns(i, opname, eng, peek_result(eng))

peek_upto_unbounded(i, end, sig) ==
    /\ IsOpen(i, "leaf")
    /\ peek_upto_as(i, "peek_upto", SPOS_MAX, sig)

peek_upto(i, end, sig) ==
    /\ IsOpen(i, "leaf")
    /\ peek_upto_as(i, "peek_upto", end, sig)

peek_short(i, sig) ==
    /\ IsOpen(i, "leaf")
    /\ peek_upto_as(i, "peek", SPOS_MAX - 1, sig)

peek_consumes(i, sig) ==
    /\ IsOpen(i, "leaf")
    /\ \E eng \in {bch2_btree_iter_peek_upto(iter, i, SPOS_MAX, sig)} :
           Returns(i, "peek",
                   [eng EXCEPT !.its = bch2_btree_iter_advance(eng.its, i)],
                   peek_result(eng))

peek(i, sig) ==
    /\ IsOpen(i, "leaf")
    /\ peek_upto_as(i, "peek", SPOS_MAX, sig)

peek_and_restart_waits(i, sig) ==
    /\ IsOpen(i, "leaf")
    /\ \E eng \in {bch2_btree_iter_peek_and_restart_outlined(iter, i, sig)} :
           /\ ~IsRestart(eng.k)
           /\ Returns(i, "peek_and_restart", eng, peek_result(eng))

peek_and_restart(i, sig) ==
    /\ IsOpen(i, "leaf")
    /\ \E eng \in {bch2_btree_iter_peek_and_restart_outlined(iter, i, sig)} :
           Returns(i, "peek_and_restart", eng, peek_result(eng))

advance_keeps_view(i) ==
    /\ IsOpen(i, "leaf")
    /\ iter' = bch2_btree_iter_advance(iter, i)
    /\ call' = [call EXCEPT ![i] = CallRecord(i, "advance", NullPtr, UnitResult)]
    /\ UNCHANGED <<view, trans, puts, exits, paths, keys, ver, wr, lastRead, owner, inCall, gets>>

advance_nomove(i) ==
    /\ IsOpen(i, "leaf")
    /\ Returns(i, "advance", [k |-> NullPtr, v |-> NullPtr, its |-> iter], UnitResult)

advance_drops_flags(i) ==
    /\ IsOpen(i, "leaf")
    /\ Returns(i, "advance",
               [k |-> NullPtr, v |-> NullPtr,
                its |-> [bch2_btree_iter_advance(iter, i) EXCEPT ![i].flags = 0]],
               UnitResult)

advance(i) ==
    /\ IsOpen(i, "leaf")
    /\ Returns(i, "advance",
               [k |-> NullPtr, v |-> NullPtr, its |-> bch2_btree_iter_advance(iter, i)],
               UnitResult)

node_peek(i, sig) ==
    /\ IsOpen(i, "node")
    /\ \E eng \in {bch2_btree_iter_peek_node(iter, i, sig)} :
           Returns(i, "peek", eng, node_result(eng))

node_peek_and_restart(i, sig) ==
    /\ IsOpen(i, "node")
    /\ \E eng \in {bch2_btree_iter_peek_node_and_restart(iter, i, sig)} :
           Returns(i, "peek_and_restart", eng, node_result(eng))

node_advance_stays(i, sig) ==
    /\ IsOpen(i, "node")
    /\ Returns(i, "advance", [k |-> NullPtr, v |-> NullPtr, its |-> iter], UnitResult)

node_advance_reports(i, sig) ==
    /\ IsOpen(i, "node")
    /\ \E eng \in {bch2_btree_iter_next_node(iter, i, sig)} :
           Returns(i, "advance", eng, node_result(eng))

node_advance(i, sig) ==
    /\ IsOpen(i, "node")
    /\ \E eng \in {bch2_btree_iter_next_node(iter, i, sig)} :
           Returns(i, "advance", eng, UnitResult)

node_next(i, sig) ==
    /\ IsOpen(i, "node")
    /\ \E eng \in {bch2_btree_iter_next_node(iter, i, sig)} :
           Returns(i, "next", eng, node_result(eng))

(* bch2_trans_iter_exit(self.raw.trans, &mut self.raw) *)
bch2_trans_iter_exit(i) ==
    /\ exits' = [exits EXCEPT ![i] = @ + 1]
    /\ paths' = [t \in TransIds |-> IF t = iter[i].trans THEN paths[t] \ {i} ELSE paths[t]]
    /\ iter' = [iter EXCEPT ![i] = [NoIter EXCEPT !.state = "closed"]]

BtreeIter_drop_noexit(i) ==
    /\ IsOpen(i, "leaf")
    /\ iter' = [iter EXCEPT ![i].state = "closed"]
    /\ view' = [view EXCEPT ![i] = NoView]
    /\ call' = [call EXCEPT ![i] = NoCall]
    /\ UNCHANGED <<trans, puts, exits, paths, keys, ver, wr, lastRead, owner, inCall, gets>>

BtreeIter_drop_siblings(i) ==
    /\ IsOpen(i, "leaf")
    /\ LET gone == paths[iter[i].trans]
       IN  /\ exits' = [j \in IterIds |-> IF j \in gone THEN exits[j] + 1 ELSE exits[j]]
           /\ paths' = [paths EXCEPT ![iter[i].trans] = {}]
           /\ iter' = [j \in IterIds |->
                          IF j \in gone THEN [NoIter EXCEPT !.state = "closed"] ELSE iter[j]]
           /\ view' = [j \in IterIds |-> IF j \in gone THEN NoView ELSE view[j]]
           /\ call' = [j \in IterIds |-> IF j \in gone THEN NoCall ELSE call[j]]
    /\ UNCHANGED <<trans, puts, keys, ver, wr, lastRead, owner, inCall, gets>>

BtreeIter_drop(i) ==
    /\ IsOpen(i, "leaf")
    /\ bch2_trans_iter_exit(i)
    /\ view' = [view EXCEPT ![i] = NoView]
    /\ call' = [call EXCEPT ![i] = NoCall]
    /\ UNCHANGED <<trans, puts, keys, ver, wr, lastRead, owner, inCall, gets>>

BtreeNodeIter_drop(i) ==
    /\ IsOpen(i, "node")
    /\ bch2_trans_iter_exit(i)
    /\ view' = [view EXCEPT ![i] = NoView]
    /\ call' = [call EXCEPT ![i] = NoCall]
    /\ UNCHANGED <<trans, puts, keys, ver, wr, lastRead, owner, inCall, gets>>

(* the caller reads the key and the value through a view it still holds *)
ReadView(i) ==
    /\ view[i] # NoView
    /\ lastRead' = IF WholePair(view[i]) THEN lastRead ELSE "torn"
    /\ UNCHANGED <<trans, iter, call, view, puts, exits, paths, keys, ver, wr, owner, inCall, gets>>

-----------------------------------------------------------------------------
(* The engine's other users: a writer transaction updating one key *)

RECURSIVE Writes(_)
Writes(p) == IF p < 0 THEN 0 ELSE ver[p] + Writes(p - 1)

WriterBegin(p) ==
    /\ wr = NoPos
    /\ p \in keys
    /\ Writes(MaxPos) < MaxWrites
    /\ ~HeldOn(0, NodeOf(p))
    /\ wr' = p
    /\ UNCHANGED <<trans, iter, call, view, puts, exits, paths, keys, ver, lastRead, owner, inCall, gets>>

WriterEnd ==
    /\ wr # NoPos
    /\ ver' = [ver EXCEPT ![wr] = @ + 1]
    /\ wr' = NoPos
    /\ UNCHANGED <<trans, iter, call, view, puts, exits, paths, keys, lastRead, owner, inCall, gets>>

-----------------------------------------------------------------------------
Init ==
    /\ trans = [t \in TransIds |-> "none"]
    /\ iter = [i \in IterIds |-> NoIter]
    /\ call = [i \in IterIds |-> NoCall]
    /\ view = [i \in IterIds |-> NoView]
    /\ puts = [t \in TransIds |-> 0]
    /\ exits = [i \in IterIds |-> 0]
    /\ paths = [t \in TransIds |-> {}]
    /\ keys \in KeySets
    /\ ver = [p \in Positions |-> 0]
    /\ wr = NoPos
    /\ lastRead = "whole"
    /\ owner = [t \in TransIds |-> NoThread]
    /\ inCall = [th \in Threads |-> NoIterId]
    /\ gets = [t \in TransIds |-> 0]

(* the binding's operations, on every cursor and context *)
Next ==
    \/ \E t \in TransIds : BtreeTrans_new(t)
    \/ \E t \in TransIds : BtreeTrans_drop(t)
    \/ \E i \in IterIds : \E t \in TransChoices(i), pos \in StartPositions,
                             flags \in FlagChoices :
            BtreeIter_new(i, t, pos, flags)
    \/ \E i \in IterIds : \E t \in TransChoices(i), pos \in StartPositions,
                             lw \in LocksWant, d \in Depths, flags \in FlagChoices :
            BtreeNodeIter_new(i, t, pos, lw, d, flags)
    \/ \E i \in IterIds, end \in Positions, sig \in EngineSignals : peek_upto(i, end, sig)
    \/ \E i \in IterIds, sig \in EngineSignals : peek(i, sig)
    \/ \E i \in IterIds, sig \in EngineSignals : peek_and_restart(i, sig)
    \/ \E i \in IterIds : advance(i)
    \/ \E i \in IterIds, sig \in EngineSignals : node_peek(i, sig)
    \/ \E i \in IterIds, sig \in EngineSignals : node_peek_and_restart(i, sig)
    \/ \E i \in IterIds, sig \in EngineSignals : node_advance(i, sig)
    \/ \E i \in IterIds, sig \in EngineSignals : node_next(i, sig)
    \/ \E i \in IterIds : BtreeIter_drop(i)
    \/ \E i \in IterIds : BtreeNodeIter_drop(i)
    \/ \E i \in IterIds : ReadView(i)

Spec == Init /\ [][Next]_vars

(* Leaf Cursors of one context reading while a writer transaction updates
   the tree *)
NextW ==
    \/ BtreeTrans_new(1)
    \/ BtreeTrans_drop(1)
    \/ \E i \in IterIds, pos \in StartPositions : BtreeIter_new(i, 1, pos, 0)
    \/ \E i \in IterIds, end \in Positions, sig \in EngineSignals : peek_upto(i, end, sig)
    \/ \E i \in IterIds, sig \in EngineSignals : peek(i, sig)
    \/ \E i \in IterIds, sig \in EngineSignals : peek_and_restart(i, sig)
    \/ \E i \in IterIds : advance(i)
    \/ \E i \in IterIds : BtreeIter_drop(i)
    \/ \E i \in IterIds : ReadView(i)
    \/ \E p \in Positions : WriterBegin(p)
    \/ WriterEnd

WriterSpec == Init /\ [][NextW]_vars

-----------------------------------------------------------------------------
(* Properties *)

MaxPosition == CHOOSE p \in Positions : \A q \in Positions : q <= p
Succeeded(i) == call[i].ret \in {"OkSome", "OkNone"}

(* C1: every opened context and cursor has had its engine resource released
   exactly once when it is closed (bch2_trans_put for a context,
   bch2_trans_iter_exit for a cursor), and not at all before: the release
   count is never two, and never zero for a closed object. *)
C1_ReleasedExactlyOnce ==
    /\ \A t \in TransIds : puts[t] = IF trans[t] = "closed" THEN 1 ELSE 0
    /\ \A i \in IterIds : exits[i] = IF iter[i].state = "closed" THEN 1 ELSE 0

C1_Witness ==
    /\ \A t \in TransIds : trans[t] = "closed" /\ puts[t] = 1
    /\ \A i \in IterIds : iter[i].state = "closed" /\ exits[i] = 1

(* C2: a closed context has no cursor open or registered under it, and every
   call made on a cursor found the cursor's context open. *)
C2_CursorNestedInContext ==
    /\ \A i \in IterIds : iter[i].state = "open" => trans[iter[i].trans] = "open"
    /\ \A t \in TransIds : trans[t] = "closed" => paths[t] = {}
    /\ \A i \in IterIds : call[i].ctxOpen

C2_Witness ==
    /\ trans[1] = "closed" /\ exits[1] = 1
    /\ iter[2].state = "open" /\ call[2].ret = "OkSome"

(* C3: a view that can still be read belongs to an open cursor and is the
   result of the most recent call on that cursor. *)
C3_ViewIsCurrent ==
    \A i \in IterIds :
        view[i] # NoView =>
            /\ iter[i].state = "open"
            /\ call[i].ret = "OkSome"
            /\ view[i].k = call[i].sig

C3_Witness ==
    \E i \in IterIds :
        /\ call[i].ret = "Unit" /\ call[i].floor # NoPos /\ view[i] = NoView
        /\ \E j \in IterIds \ {i} : view[j] # NoView

(* C4: peek_upto(end) returns either a key at or after the cursor's position
   and at or before end, or the empty result, or an error; never a key
   beyond end. *)
C4_PeekUptoBounded ==
    [][\A i \in IterIds, end \in Positions, sig \in EngineSignals :
          peek_upto(i, end, sig) =>
              \/ /\ call'[i].ret = "OkSome"
                 /\ view'[i].k.at \in keys
                 /\ iter[i].pos <= view'[i].k.at
                 /\ view'[i].k.at <= end
              \/ call'[i].ret = "OkNone"
              \/ call'[i].ret = "Err"]_vars

C4_Witness ==
    \E i \in IterIds :
        /\ IsOpen(i, "leaf") /\ call[i].ret = "OkNone"
        /\ \E p \in keys : iter[i].pos <= p

(* C5: peek() is peek_upto(MAX_POSITION): from the same state and with the
   same engine signal both leave the same result and the same cursor. *)
C5_PeekIsPeekUptoMax ==
    [][\A i \in IterIds, sig \in EngineSignals :
          peek(i, sig) =>
              LET eng == bch2_btree_iter_peek_upto(iter, i, MaxPosition, sig)
              IN  /\ iter' = eng.its
                  /\ view'[i] = peek_result(eng).view
                  /\ call'[i].ret = peek_result(eng).ret
                  /\ call'[i].err = peek_result(eng).err]_vars

C5_Witness ==
    \E i \in IterIds :
        /\ IsOpen(i, "leaf") /\ call[i].ret = "OkSome"
        /\ view[i].k.at = MaxPosition /\ call[i].floor # NoPos

(* C6: on a Leaf Cursor a key returned after an advance() lies at a greater
   position than the key returned before that advance(). *)
C6_StrictlyIncreasing ==
    \A i \in IterIds :
        (IsOpen(i, "leaf") /\ call[i].ret = "OkSome" /\ call[i].floor # NoPos)
            => view[i].k.at > call[i].floor

C6_Witness ==
    \E i \in IterIds :
        /\ IsOpen(i, "leaf") /\ call[i].ret = "OkSome" /\ call[i].floor # NoPos
        /\ view[i].k.at > call[i].floor

(* C7: what a peek-style call returns mirrors the engine's signal: a pointer
   gives a present result, the null pointer gives the empty result and no
   error, an error pointer gives an error carrying the engine's own code. *)
C7_OutcomeMirrorsEngine ==
    \A i \in IterIds :
        call[i].ret \in {"OkSome", "OkNone", "Err"} =>
            \/ call[i].sig.tag = "ptr" /\ call[i].ret = "OkSome" /\ call[i].err = "none"
            \/ call[i].sig.tag = "null" /\ call[i].ret = "OkNone" /\ call[i].err = "none"
            \/ /\ call[i].sig.tag = "err" /\ call[i].ret = "Err"
               /\ call[i].err = call[i].sig.code /\ call[i].err \in ErrCodes

C7_Witness ==
    \E i, j \in IterIds :
        /\ call[i].ret = "Err" /\ call[i].err = "transaction_restart"
        /\ iter[j].kind = "node" /\ call[j].ret = "OkNone"

(* C8: once a Leaf Cursor is Conflicted, a bare peek, peek_upto or advance
   on it fails fast: the call reports an error and the cursor does not
   move; it returns no key/value and does not resume. *)
C8_ConflictedFailsFast ==
    [][\A i \in IterIds :
          (/\ call[i].conflicted
           /\ \/ \E sig \in EngineSignals : peek(i, sig)
              \/ \E end \in Positions, sig \in EngineSignals : peek_upto(i, end, sig)
              \/ advance(i))
          => (call'[i].ret = "Err" /\ iter'[i].pos = iter[i].pos)]_vars

(* C9: every key/value pair a Leaf Cursor returns, in particular after it
   has observed a Conflict and been restarted with peek_and_restart, is a
   pair the writer wrote as a whole: key and value of one version. *)
C9_NoTornReturn ==
    \A i \in IterIds : call[i].ret = "OkSome" => call[i].whole

C9_Witness ==
    \E i \in IterIds :
        /\ call[i].restarted /\ call[i].ret = "OkSome"
        /\ ver[view[i].k.at] > 0

-----------------------------------------------------------------------------
(* Two Leaf Cursors under two separate contexts, both asking for intent
   locks; a Conflicted cursor's owner keeps calling peek_and_restart *)
NextL ==
    \/ \E t \in TransIds : BtreeTrans_new(t)
    \/ \E t \in TransIds : BtreeTrans_drop(t)
    \/ \E i \in IterIds \cap TransIds, pos \in StartPositions :
            BtreeIter_new(i, i, pos, INTENT)
    \/ \E i \in IterIds : peek(i, "ok")
    \/ \E i \in IterIds : peek_and_restart(i, "ok")
    \/ \E i \in IterIds : advance(i)
    \/ \E i \in IterIds : BtreeIter_drop(i)

LiveSpec ==
    /\ Init
    /\ [][NextL]_vars
    /\ \A i \in IterIds : WF_vars(call[i].conflicted /\ peek_and_restart(i, "ok"))

IntentHeld(i) == iter[i].state = "open" /\ iter[i].lock.mode = "intent"

NoTwoIntent ==
    \A i, j \in IterIds :
        (/\ i # j /\ IntentHeld(i) /\ IntentHeld(j)
         /\ iter[i].lock.level = iter[j].lock.level
         /\ iter[i].lock.key = iter[j].lock.key)
        => iter[i].trans = iter[j].trans

OthersClosed(i) ==
    \A j \in IterIds \ {i} : iter[j].state = "closed" /\ trans[j] = "closed"

(* C10: cursors of two contexts never hold the intent lock on one node at
   once; and a cursor left Conflicted whose owner keeps restarting it
   succeeds eventually once the other cursor and its context are closed. *)
C10_IntentConflictThenProgress ==
    /\ []NoTwoIntent
    /\ \A i \in IterIds :
          [](call[i].conflicted /\ OthersClosed(i)
                => <>(Succeeded(i) \/ iter[i].state # "open"))

C10_Witness ==
    \E i \in IterIds :
        /\ call[i].restarted /\ ~call[i].conflicted /\ Succeeded(i)
        /\ OthersClosed(i)

-----------------------------------------------------------------------------
(* Cursors that are only ever driven with peek_and_restart *)
NextR ==
    \/ \E t \in TransIds : BtreeTrans_new(t)
    \/ \E t \in TransIds : BtreeTrans_drop(t)
    \/ \E i \in IterIds : \E t \in TransChoices(i), pos \in StartPositions,
                             flags \in FlagChoices :
            BtreeIter_new(i, t, pos, flags)
    \/ \E i \in IterIds : \E t \in TransChoices(i), pos \in StartPositions,
                             lw \in LocksWant, d \in Depths, flags \in FlagChoices :
            BtreeNodeIter_new(i, t, pos, lw, d, flags)
    \/ \E i \in IterIds, sig \in EngineSignals : peek_and_restart(i, sig)
    \/ \E i \in IterIds, sig \in EngineSignals : node_peek_and_restart(i, sig)
    \/ \E i \in IterIds : advance(i)
    \/ \E i \in IterIds : BtreeIter_drop(i)
    \/ \E i \in IterIds : BtreeNodeIter_drop(i)

RestartSpec == Init /\ [][NextR]_vars

IsConflictResult(c) == c.ret = "Err" /\ c.err = "transaction_restart"

(* a conflict that re-beginning cursor i's transaction does not clear: every
   attempt made within one call meets it *)
StuckLeaf(i) ==
    IsRestart(bch2_btree_iter_peek_upto(bch2_trans_begin(iter, iter[i].trans),
                                        i, SPOS_MAX, "ok").k)
StuckNode(i) ==
    IsRestart(bch2_btree_iter_peek_node(bch2_trans_begin(iter, iter[i].trans),
                                        i, "ok").k)

(* C11: peek_and_restart always returns, after at most RetryBudget retries
   inside the call; when every attempt meets a conflict it returns the
   Conflict to the caller, and it returns a Conflict only with the budget
   used up. *)
C11_RestartIsBounded ==
    /\ [](\A i \in IterIds :
            /\ IsOpen(i, "leaf") => ENABLED peek_and_restart(i, "ok")
            /\ IsOpen(i, "node") => ENABLED node_peek_and_restart(i, "ok"))
    /\ [][\A i \in IterIds :
            /\ peek_and_restart(i, "ok") =>
                  LET eng == bch2_btree_iter_peek_and_restart_outlined(iter, i, "ok")
                  IN  /\ eng.tries \in 1..(RetryBudget + 1)
                      /\ StuckLeaf(i) => IsConflictResult(call'[i])
                      /\ IsConflictResult(call'[i]) => eng.tries = RetryBudget + 1
            /\ node_peek_and_restart(i, "ok") =>
                  LET eng == bch2_btree_iter_peek_node_and_restart(iter, i, "ok")
                  IN  /\ eng.tries \in 1..(RetryBudget + 1)
                      /\ StuckNode(i) => IsConflictResult(call'[i])
                      /\ IsConflictResult(call'[i]) => eng.tries = RetryBudget + 1]_vars

C11_Witness ==
    \E i, j \in IterIds :
        /\ IsOpen(i, "leaf") /\ IsConflictResult(call[i])
        /\ IsOpen(j, "node") /\ call[j].ret = "OkSome"

-----------------------------------------------------------------------------
(* Several threads.  BtreeTrans holds raw: *mut c::btree_trans, BtreeIter and
   BtreeNodeIter hold a c::btree_iter and PhantomData<&'t BtreeTrans<'t>>:
   none of them is Send or Sync, so a context and the cursors opened under
   it can be named only on the thread that created the context. *)
OnOwnThread_any(th, t) == TRUE

OnOwnThread(th, t) == owner[t] = th

Idle(th) == inCall[th] = NoIterId

thread_BtreeTrans_new(th, t) ==
    /\ Idle(th)
    /\ BtreeTrans_new_on(th, t, "ptr", "trap")

thread_BtreeTrans_drop(th, t) ==
    /\ Idle(th)
    /\ OnOwnThread(th, t)
    /\ BtreeTrans_drop(t)

thread_BtreeIter_new(th, i, t, pos, flags) ==
    /\ Idle(th)
    /\ OnOwnThread(th, t)
    /\ BtreeIter_new(i, t, pos, flags)

(* thread th calls a method of cursor i; the call has not returned yet *)
thread_enter(th, i) ==
    /\ Idle(th)
    /\ IsOpen(i, "leaf")
    /\ OnOwnThread(th, iter[i].trans)
    /\ inCall' = [inCall EXCEPT ![th] = i]
    /\ UNCHANGED <<trans, iter, call, view, puts, exits, paths, keys, ver, wr,
                   lastRead, owner, gets>>

(* the call thread th is inside runs and returns *)
thread_peek(th, sig) ==
    /\ ~Idle(th)
    /\ peek(inCall[th], sig)

thread_advance(th) ==
    /\ ~Idle(th)
    /\ advance(inCall[th])

thread_BtreeIter_drop(th, i) ==
    /\ Idle(th)
    /\ \A o \in Threads : inCall[o] # i
    /\ IsOpen(i, "leaf")
    /\ OnOwnThread(th, iter[i].trans)
    /\ BtreeIter_drop(i)

NextT ==
    \/ \E th \in Threads, t \in TransIds : thread_BtreeTrans_new(th, t)
    \/ \E th \in Threads, t \in TransIds : thread_BtreeTrans_drop(th, t)
    \/ \E th \in Threads, i \in IterIds : \E t \in TransChoices(i),
                             pos \in StartPositions, flags \in FlagChoices :
            thread_BtreeIter_new(th, i, t, pos, flags)
    \/ \E th \in Threads, i \in IterIds : thread_enter(th, i)
    \/ \E th \in Threads, sig \in EngineSignals : thread_peek(th, sig)
    \/ \E th \in Threads : thread_advance(th)
    \/ \E th \in Threads, i \in IterIds : thread_BtreeIter_drop(th, i)

ThreadSpec == Init /\ [][NextT]_vars

(* C12: a thread inside a cursor call is the thread that created the
   cursor's context, and no two threads are inside calls on cursors of one
   context at the same time. *)
C12_OneThreadPerContext ==
    /\ \A th \in Threads :
          ~Idle(th) => /\ iter[inCall[th]].state = "open"
                       /\ owner[iter[inCall[th]].trans] = th
    /\ \A a, b \in Threads :
          (a # b /\ ~Idle(a) /\ ~Idle(b))
              => iter[inCall[a]].trans # iter[inCall[b]].trans

C12_Witness ==
    /\ \A th \in Threads : ~Idle(th)
    /\ \E i \in IterIds : call[i].ret = "OkSome"

-----------------------------------------------------------------------------
(* An engine that can run out of contexts *)
Allocated == {t \in TransIds : gets[t] = 1}

NextA ==
    \/ \E t \in TransIds, got \in AllocSignals, ub \in NullDerefOutcomes :
            BtreeTrans_new_on(MainThread, t, got, ub)
    \/ \E t \in TransIds : BtreeTrans_drop(t)
    \/ \E i \in IterIds : \E t \in TransChoices(i) \cap Allocated,
                             pos \in StartPositions, flags \in FlagChoices :
            BtreeIter_new(i, t, pos, flags)
    \/ \E i \in IterIds, sig \in EngineSignals : peek(i, sig)
    \/ \E i \in IterIds : advance(i)
    \/ \E i \in IterIds : BtreeIter_drop(i)

AllocSpec == Init /\ [][NextA]_vars

(* C13: when the engine could not allocate a context, opening fails: no
   BtreeTrans exists for it afterwards, open or closed, and bch2_trans_put
   is never called for it. *)
C13_FailedOpenLeavesNothing ==
    \A t \in TransIds :
        gets[t] = 0 => (trans[t] \in {"none", "failed"} /\ puts[t] = 0)

-----------------------------------------------------------------------------
(* Cursors opened with the cache flags *)
AllFlagChoices == {0, INTENT, CACHED, CACHED_NOFILL, CACHED + CACHED_NOFILL}

NextF ==
    \/ \E t \in TransIds : BtreeTrans_new(t)
    \/ \E t \in TransIds : BtreeTrans_drop(t)
    \/ \E i \in IterIds : \E t \in TransChoices(i), pos \in StartPositions,
                             flags \in AllFlagChoices :
            BtreeIter_new(i, t, pos, flags)
    \/ \E i \in IterIds : \E t \in TransChoices(i), pos \in StartPositions,
                             lw \in LocksWant, d \in Depths, flags \in AllFlagChoices :
            BtreeNodeIter_new(i, t, pos, lw, d, flags)
    \/ \E i \in IterIds : peek(i, "ok")
    \/ \E i \in IterIds : node_peek(i, "ok")
    \/ \E i \in IterIds : BtreeIter_drop(i)
    \/ \E i \in IterIds : BtreeNodeIter_drop(i)

FlagSpec == Init /\ [][NextF]_vars

(* C14: no cursor registered with the engine carries CACHED_NOFILL without
   CACHED: opening a cursor with that flag set is rejected. *)
C14_NofillNeedsCached ==
    \A t \in TransIds : \A i \in paths[t] :
        HasFlag(iter[i].flags, CACHED_NOFILL) => HasFlag(iter[i].flags, CACHED)

-----------------------------------------------------------------------------
(* Node Cursor: advance and next.  Node Cursors only, under both contexts. *)
NextN ==
    \/ \E t \in TransIds : BtreeTrans_new(t)
    \/ \E t \in TransIds : BtreeTrans_drop(t)
    \/ \E i \in IterIds : \E t \in TransChoices(i), pos \in StartPositions,
                             lw \in LocksWant, d \in Depths, flags \in FlagChoices :
            BtreeNodeIter_new(i, t, pos, lw, d, flags)
    \/ \E i \in IterIds, sig \in EngineSignals : node_peek(i, sig)
    \/ \E i \in IterIds, sig \in EngineSignals : node_peek_and_restart(i, sig)
    \/ \E i \in IterIds, sig \in EngineSignals : node_advance(i, sig)
    \/ \E i \in IterIds, sig \in EngineSignals : node_next(i, sig)
    \/ \E i \in IterIds : BtreeNodeIter_drop(i)

NodeSpec == Init /\ [][NextN]_vars

(* C15: next() and advance() move a Node Cursor alike, and what next()
   returns is what peek() returns on the cursor advance() leaves behind. *)
C15_NextIsAdvanceThenPeek ==
    [][\A i \in IterIds, sig \in EngineSignals :
          LET moved  == bch2_btree_iter_next_node(iter, i, sig).its
              peeked == node_result(bch2_btree_iter_peek_node(moved, i, sig))
          IN  /\ node_advance(i, sig) =>
                    /\ iter' = moved
                    /\ call'[i].ret = "Unit" /\ view'[i] = NoView
              /\ node_next(i, sig) =>
                    /\ iter' = moved
                    /\ call'[i].ret # "Err" =>
                          /\ peeked.ret = call'[i].ret
                          /\ peeked.view = view'[i]
                          /\ bch2_btree_iter_peek_node(moved, i, sig).its = moved]_vars

C15_Witness ==
    \E i \in IterIds :
        /\ IsOpen(i, "node") /\ iter[i].depth = 0
        /\ call[i].ret = "OkSome" /\ view[i].k.at = SPOS_MAX
        /\ LeafSplit < SPOS_MAX

(* C16: a cursor carries the flags it was opened with: opening stores the
   flags passed in, and no call on an open cursor changes them. *)
C16_FlagsFixed ==
    [][\A i \in IterIds :
          /\ (iter[i].state = "open" /\ iter'[i].state = "open")
                => iter'[i].flags = iter[i].flags
          /\ \A t \in TransIds, pos \in StartPositions, flags \in FlagChoices :
                /\ BtreeIter_new(i, t, pos, flags) => iter'[i].flags = flags
                /\ \A lw \in LocksWant, d \in Depths :
                      BtreeNodeIter_new(i, t, pos, lw, d, flags)
                          => iter'[i].flags = flags]_vars

C16_Witness ==
    \E i, j \in IterIds :
        /\ IsOpen(i, "leaf") /\ iter[i].flags = INTENT
        /\ call[i].ret = "OkSome" /\ call[i].floor # NoPos
        /\ IsOpen(j, "node") /\ iter[j].flags = INTENT /\ call[j].ret = "Unit"

(* C17: advance() completes without meeting a lock held by another
   transaction: the engine call it makes never ends in the restart by which
   the engine resolves a lock conflict. *)
C17_AdvanceMeetsNoLock ==
    \A i \in IterIds : call[i].ret = "Unit" => ~IsRestart(call[i].sig)

(* C18: Node Cursor advance() returns normally whatever the engine
   signalled, and the caller's view of the cursor's protocol state does not
   change; next() returns the engine's error. *)
C18_NodeAdvanceDiscards ==
    [][\A i \in IterIds, sig \in EngineSignals :
          LET eng == bch2_btree_iter_next_node(iter, i, sig)
          IN  /\ node_advance(i, sig) =>
                    /\ call'[i].ret = "Unit" /\ call'[i].err = "none"
                    /\ call'[i].sig = eng.k
                    /\ call'[i].conflicted = call[i].conflicted
              /\ (node_next(i, sig) /\ eng.k.tag = "err") =>
                    /\ call'[i].ret = "Err" /\ call'[i].err = eng.k.code
                    /\ IsRestart(eng.k) => call'[i].conflicted]_vars

C18_Witness ==
    \E i \in IterIds :
        /\ IsOpen(i, "node") /\ call[i].ret = "Unit"
        /\ IsRestart(call[i].sig) /\ ~call[i].conflicted

(* C19: a peek (or peek_upto whose end reaches the key returned last)
   issued after a successful peek with no advance() in between, and not
   ending in an error, returns the same key/value again. *)
C19_PeekDoesNotMove ==
    [][\A i \in IterIds, end \in Positions, sig \in EngineSignals :
          (/\ call[i].ret = "OkSome"
           /\ view[i].k.at <= end
           /\ \/ peek_upto(i, end, sig)
              \/ end = SPOS_MAX /\ peek(i, sig)
           /\ call'[i].ret # "Err")
          => (call'[i].ret = "OkSome" /\ view'[i] = view[i])]_vars

C19_Witness ==
    \E i \in IterIds :
        /\ IsOpen(i, "leaf") /\ call[i].again
        /\ \E p \in keys : p > view[i].k.at

(* C20: dropping a cursor deregisters that cursor from the context it was
   opened under and nothing else: the other cursors keep their state,
   position and flags, and the contexts stay as they are. *)
C20_DropIsLocal ==
    [][\A i \in IterIds :
          (BtreeIter_drop(i) \/ BtreeNodeIter_drop(i)) =>
              /\ i \in paths[iter[i].trans]
              /\ paths' = [paths EXCEPT ![iter[i].trans] = @ \ {i}]
              /\ \A j \in IterIds \ {i} :
                    /\ iter'[j].state = iter[j].state
                    /\ iter'[j].pos = iter[j].pos
                    /\ iter'[j].flags = iter[j].flags
              /\ trans' = trans
              /\ trans[iter[i].trans] = "open"]_vars

C20_Witness ==
    /\ iter[1].state = "closed" /\ exits[1] = 1
    /\ IsOpen(2, "leaf") /\ iter[2].trans = 1 /\ paths[1] = {2}
    /\ call[2].ret = "OkSome" /\ trans[1] = "open"
====
